---- MODULE Spec2Model ----
(***************************************************************************)
(* Model of the Tunisian stock-index CSV pipeline:                         *)
(*   src/data_combining.py   clean_column_names, standardize_date_format,  *)
(*                           clean_numeric_columns, process_csv_file,      *)
(*                           combine_csv_files                             *)
(*   src/data_filtering.py   the TUNINDEX filter script                    *)
(*   src/indice_2021/2021.py the fixed-width numeric loop                  *)
(*                                                                         *)
(* A string is a sequence of tokens; a token is one character, or a run of *)
(* non-blank characters that no operation of the program looks inside      *)
(* (a column name such as "SEANCE", an index label such as "TUNINDEX").    *)
(* A cell is a record [k, s, m, e]: k is "null" (NaN / NaT), "text" (s is  *)
(* the string), "num" (the decimal m * 10^-e, e minimal) or "date" (m is   *)
(* year*10000 + month*100 + day).                                          *)
(* A DataFrame is [kind, columns, index, rows]: index holds the row        *)
(* labels; kind is "df", or "None" (the function returned None) or         *)
(* "raise" (the call raised).                                              *)
(***************************************************************************)
EXTENDS Integers, Sequences, FiniteSets, TLC

\* ------------------------------------------------------------------ bounds
MaxLen == 3        \* longest generated cell text, in characters
MaxPad == 2        \* most blanks on either side of a generated column name
MaxRows == 2       \* most rows of a generated source file
LastYear == 2009   \* last year folder the environment may hold
MaxFiles == 2      \* most CSV files glob finds in one folder
MaxTotalFiles == 2 \* most CSV files one run ingests

\* ------------------------------------------------------------------- cells
Null == [k |-> "null", s |-> <<>>, m |-> 0, e |-> 0]
Text(str) == [k |-> "text", s |-> str, m |-> 0, e |-> 0]
Date(n) == [k |-> "date", s |-> <<>>, m |-> n, e |-> 0]

RECURSIVE Num(_, _)
Num(mant, exp) ==
    IF exp > 0 /\ mant % 10 = 0 THEN Num(mant \div 10, exp - 1)
    ELSE [k |-> "num", s |-> <<>>, m |-> mant, e |-> exp]

\* ----------------------------------------------------------------- strings
DigitChars == <<"0", "1", "2", "3", "4", "5", "6", "7", "8", "9">>
IsDigit(c) == \E i \in 1..10 : DigitChars[i] = c
DigitVal(c) == (CHOOSE i \in 1..10 : DigitChars[i] = c) - 1

RECURSIVE LStrip(_)
LStrip(str) ==
    IF str # <<>> /\ Head(str) = " " THEN LStrip(Tail(str)) ELSE str

RECURSIVE RStrip(_)
RStrip(str) ==
    IF str # <<>> /\ str[Len(str)] = " "
    THEN RStrip(SubSeq(str, 1, Len(str) - 1)) ELSE str

\* a strip that removes one blank at most from either end
StripOnce(str) ==
    LET a == IF str # <<>> /\ Head(str) = " " THEN Tail(str) ELSE str
    IN  IF a # <<>> /\ a[Len(a)] = " " THEN SubSeq(a, 1, Len(a) - 1) ELSE a

\* str.strip()
Strip(str) == RStrip(LStrip(str))

\* str.replace(old, new), one character for one character
Replace(str, old, new) ==
    [i \in DOMAIN str |-> IF str[i] = old THEN new ELSE str[i]]

AllDigits(str) == \A i \in DOMAIN str : IsDigit(str[i])

RECURSIVE DigitsValue(_)
DigitsValue(str) ==
    IF str = <<>> THEN 0
    ELSE 10 * DigitsValue(SubSeq(str, 1, Len(str) - 1)) + DigitVal(str[Len(str)])

\* the digits of n >= 0, most significant first
RECURSIVE DigitsOf(_)
DigitsOf(n) ==
    IF n < 10 THEN <<DigitChars[n + 1]>>
    ELSE Append(DigitsOf(n \div 10), DigitChars[(n % 10) + 1])

RECURSIVE ZeroPad(_, _)
ZeroPad(str, width) ==
    IF Len(str) >= width THEN str ELSE ZeroPad(<<"0">> \o str, width)

\* position of the first occurrence of c in str, 0 if none
FirstIndex(str, c) ==
    IF \E i \in DOMAIN str : str[i] = c
    THEN CHOOSE i \in DOMAIN str :
             str[i] = c /\ \A j \in 1..(i - 1) : str[j] # c
    ELSE 0

\* ---------------------------------------------------------- numeric parser
\* pd.to_numeric on one string: blanks around the number are skipped, then an
\* optional sign, digits, an optional point and digits, at least one digit.
ParseNumber(str) ==
    LET t == Strip(str)
        neg == t # <<>> /\ Head(t) = "-"
        u == IF t # <<>> /\ Head(t) \in {"-", "+"} THEN Tail(t) ELSE t
        p == FirstIndex(u, ".")
        ip == IF p = 0 THEN u ELSE SubSeq(u, 1, p - 1)
        fp == IF p = 0 THEN <<>> ELSE SubSeq(u, p + 1, Len(u))
    IN  IF AllDigits(ip) /\ AllDigits(fp) /\ Len(ip) + Len(fp) >= 1
        THEN Num((IF neg THEN -1 ELSE 1) * DigitsValue(ip \o fp), Len(fp))
        ELSE Null

\* pd.to_numeric(value, errors='coerce') on one cell
ToNumeric(c) ==
    CASE c.k = "text" -> ParseNumber(c.s)
      [] c.k = "num" -> c
      [] OTHER -> Null

\* str(number): sign, integer digits, and the fraction digits after a point
FormatNum(c) ==
    LET a == IF c.m < 0 THEN -c.m ELSE c.m
        d == ZeroPad(DigitsOf(a), c.e + 1)
        n == Len(d)
        body == IF c.e = 0 THEN d
                ELSE SubSeq(d, 1, n - c.e) \o <<".">> \o SubSeq(d, n - c.e + 1, n)
    IN  (IF c.m < 0 THEN <<"-">> ELSE <<>>) \o body

\* str(date): YYYY-MM-DD
FormatDate(c) ==
    ZeroPad(DigitsOf(c.m \div 10000), 4) \o <<"-">>
        \o ZeroPad(DigitsOf((c.m \div 100) % 100), 2) \o <<"-">>
        \o ZeroPad(DigitsOf(c.m % 100), 2)

\* Series.astype(str) on one cell
AsStr(c) ==
    CASE c.k = "text" -> c.s
      [] c.k = "num" -> FormatNum(c)
      [] c.k = "date" -> FormatDate(c)
      [] OTHER -> <<"nan">>

\* ------------------------------------------------------------- date parser
DaysIn(mo, yr) ==
    CASE mo \in {4, 6, 9, 11} -> 30
      [] mo = 2 -> IF yr % 4 = 0 /\ (yr % 100 # 0 \/ yr % 400 = 0) THEN 29 ELSE 28
      [] OTHER -> 31

\* one string against the format '%d/%m/%Y'
ParseDate(str) ==
    LET p1 == FirstIndex(str, "/")
        rest == IF p1 = 0 THEN <<>> ELSE SubSeq(str, p1 + 1, Len(str))
        p2 == FirstIndex(rest, "/")
        dd == IF p1 = 0 THEN <<>> ELSE SubSeq(str, 1, p1 - 1)
        mm == IF p2 = 0 THEN <<>> ELSE SubSeq(rest, 1, p2 - 1)
        yy == IF p2 = 0 THEN <<>> ELSE SubSeq(rest, p2 + 1, Len(rest))
        wellFormed == /\ p1 # 0 /\ p2 # 0
                      /\ Len(dd) \in {1, 2} /\ AllDigits(dd)
                      /\ Len(mm) \in {1, 2} /\ AllDigits(mm)
                      /\ Len(yy) = 4 /\ AllDigits(yy)
        d == DigitsValue(dd)
        mo == DigitsValue(mm)
        y == DigitsValue(yy)
    IN  IF wellFormed /\ mo \in 1..12 /\ y >= 1 /\ d >= 1 /\ d <= DaysIn(mo, y)
        THEN Date(y * 10000 + mo * 100 + d)
        ELSE Null

\* pd.to_datetime(value, format='%d/%m/%Y', errors='coerce') on one cell
ToDatetime(c) ==
    CASE c.k = "text" -> ParseDate(c.s)
      [] c.k = "date" -> c
      [] OTHER -> Null

\* ------------------------------------------------------------ column names
SEANCE == <<"SEANCE">>
CODE_INDICE == <<"CODE_INDICE">>
LIB_INDICE == <<"LIB_INDICE">>
INDICE_JOUR == <<"INDICE_JOUR">>
INDICE_VEILLE == <<"INDICE_VEILLE">>
VARIATION_VEILLE == <<"VARIATION_VEILLE">>
INDICE_PLUS_HAUT == <<"INDICE_PLUS_HAUT">>
INDICE_PLUS_BAS == <<"INDICE_PLUS_BAS">>
INDICE_OUV == <<"INDICE_OUV">>
SOURCE_FILE == <<"SOURCE_FILE">>
SOURCE_FOLDER == <<"SOURCE_FOLDER">>

numeric_columns ==
    <<INDICE_JOUR, INDICE_VEILLE, VARIATION_VEILLE,
      INDICE_PLUS_HAUT, INDICE_PLUS_BAS, INDICE_OUV>>

IsNumericColumn(name) == \E i \in DOMAIN numeric_columns : numeric_columns[i] = name

\* -------------------------------------------------------------- DataFrames
\* index holds the row labels (0-based, as read_csv numbers them)
DataFrame(cols, idx, rws) ==
    [kind |-> "df", columns |-> cols, index |-> idx, rows |-> rws]
NoneDF == [kind |-> "None", columns |-> <<>>, index |-> <<>>, rows |-> <<>>]
Raised == [kind |-> "raise", columns |-> <<>>, index |-> <<>>, rows |-> <<>>]

HasColumn(df, name) == \E i \in DOMAIN df.columns : df.columns[i] = name
ColumnCount(df, name) == Cardinality({i \in DOMAIN df.columns : df.columns[i] = name})
ColumnIndex(df, name) == CHOOSE i \in DOMAIN df.columns : df.columns[i] = name

\* the members of a set of row positions, ascending
RECURSIVE Ascending(_, _, _)
Ascending(keep, r, n) ==
    IF r > n THEN <<>>
    ELSE (IF r \in keep THEN <<r>> ELSE <<>>) \o Ascending(keep, r + 1, n)

\* df[mask]: the rows at the positions keep, with their labels, in order
SelectRows(df, keep) ==
    LET pos == Ascending(keep, 1, Len(df.rows))
    IN  [df EXCEPT !.index = [j \in DOMAIN pos |-> df.index[pos[j]]],
                   !.rows = [j \in DOMAIN pos |-> df.rows[pos[j]]]]

\* ---------------------------------------------------------- the normalizers
\* def clean_column_names(df)
clean_column_names(df) ==
    IF df.kind # "df" THEN df
    ELSE [df EXCEPT !.columns = [i \in DOMAIN df.columns |-> Strip(df.columns[i])]]

\* def standardize_date_format(df); a repeated SEANCE label makes df['SEANCE']
\* a frame, and pd.to_datetime raises on it
standardize_date_format(df) ==
    IF df.kind # "df" \/ ~HasColumn(df, SEANCE) THEN df
    ELSE IF ColumnCount(df, SEANCE) > 1 THEN Raised
    ELSE [df EXCEPT !.rows =
            [r \in DOMAIN df.rows |->
                [i \in DOMAIN df.columns |->
                    IF df.columns[i] = SEANCE
                    THEN ToDatetime(df.rows[r][i]) ELSE df.rows[r][i]]]]

\* def clean_numeric_columns(df); pd.to_numeric raises on a frame
CleanNumericCell(df, i, c) ==
    IF IsNumericColumn(df.columns[i]) THEN ToNumeric(c) ELSE c

clean_numeric_columns(df) ==
    IF df.kind # "df" THEN df
    ELSE IF \E i \in DOMAIN numeric_columns : ColumnCount(df, numeric_columns[i]) > 1
    THEN Raised
    ELSE [df EXCEPT !.rows =
            [r \in DOMAIN df.rows |->
                [i \in DOMAIN df.columns |-> CleanNumericCell(df, i, df.rows[r][i])]]]

\* the numeric loop of indice_2021/2021.py, on one cell and on a frame
FwfNumericCell(c) == ParseNumber(Strip(Replace(AsStr(c), ",", ".")))

fwf_numeric_columns(df) ==
    IF df.kind # "df" THEN df
    ELSE IF \E i \in DOMAIN numeric_columns : ColumnCount(df, numeric_columns[i]) > 1
    THEN Raised
    ELSE [df EXCEPT !.rows =
            [r \in DOMAIN df.rows |->
                [i \in DOMAIN df.columns |->
                    IF IsNumericColumn(df.columns[i])
                    THEN FwfNumericCell(df.rows[r][i]) ELSE df.rows[r][i]]]]

\* ------------------------------------------------------- process_csv_file
\* A source file as pd.read_csv sees it: decodable is the set of encodings
\* under which its bytes decode, parses says whether the parser accepts the
\* decoded text, columns and rows are the parsed table.
encodings == <<"utf-8", "latin-1", "cp1252", "iso-8859-1">>

RECURSIVE TryEncodings(_, _)
TryEncodings(f, i) ==
    IF i > Len(encodings) THEN NoneDF
    ELSE IF encodings[i] \in f.decodable
    THEN (IF f.parses
          THEN DataFrame(f.columns, [r \in DOMAIN f.rows |-> r - 1], f.rows)
          ELSE Raised)
    ELSE TryEncodings(f, i + 1)

ReadCsv(f) == TryEncodings(f, 1)

ContainsDashes(str) ==
    \E i \in 1..(Len(str) - 2) : str[i] = "-" /\ str[i + 1] = "-" /\ str[i + 2] = "-"

\* a separator test that looks at every column of the row
SeparatorInAnyColumn(df, r) ==
    \E i \in DOMAIN df.columns : ContainsDashes(AsStr(df.rows[r][i]))

\* df[~df.iloc[:, 0].astype(str).str.contains('---', na=False)]
IsSeparatorRow(df, r) == ContainsDashes(AsStr(df.rows[r][1]))

FilterSeparatorRows(df) ==
    IF df.kind # "df" THEN df
    ELSE IF df.columns = <<>> THEN Raised
    ELSE SelectRows(df, {r \in DOMAIN df.rows : ~IsSeparatorRow(df, r)})

\* df.dropna(how='all')
DropEmptyRows(df) ==
    IF df.kind # "df" THEN df
    ELSE SelectRows(df, {r \in DOMAIN df.rows :
                            \E i \in DOMAIN df.columns : df.rows[r][i].k # "null"})

\* df[name] = value: every column carrying the label is overwritten, a new
\* label is appended as the last column
SetColumn(df, name, value) ==
    IF HasColumn(df, name)
    THEN [df EXCEPT !.rows =
            [r \in DOMAIN df.rows |->
                [i \in DOMAIN df.columns |->
                    IF df.columns[i] = name THEN value ELSE df.rows[r][i]]]]
    ELSE [df EXCEPT !.columns = Append(df.columns, name),
                    !.rows = [r \in DOMAIN df.rows |-> Append(df.rows[r], value)]]

StampSource(df, f) ==
    IF df.kind # "df" THEN df
    ELSE SetColumn(SetColumn(df, SOURCE_FILE, Text(f.name)),
                   SOURCE_FOLDER, Text(f.folder))

\* the try block of process_csv_file after the read
ProcessSteps(df0, f) ==
    LET d1 == clean_column_names(df0)
        d2 == FilterSeparatorRows(d1)
        d3 == DropEmptyRows(d2)
        d4 == standardize_date_format(d3)
        d5 == clean_numeric_columns(d4)
    IN  StampSource(d5, f)

\* a file boundary that lets the exception through
CatchNothing(df) == df

\* except Exception: return None
CatchAll(df) == IF df.kind = "df" THEN df ELSE NoneDF

process_csv_file(f) == CatchAll(ProcessSteps(ReadCsv(f), f))

\* ------------------------------------------------------------- pd.concat
\* the labels of frames k.. that are not yet in cols, in order of appearance
RECURSIVE AddColumns(_, _, _)
AddColumns(cols, more, i) ==
    IF i > Len(more) THEN cols
    ELSE IF \E j \in DOMAIN cols : cols[j] = more[i]
    THEN AddColumns(cols, more, i + 1)
    ELSE AddColumns(Append(cols, more[i]), more, i + 1)

RECURSIVE UnionColumns(_, _, _)
UnionColumns(cols, frames, k) ==
    IF k > Len(frames) THEN cols
    ELSE UnionColumns(AddColumns(cols, frames[k].columns, 1), frames, k + 1)

\* the rows of one frame laid out under the labels cols, NaN where it has none
AlignRows(df, cols) ==
    [r \in DOMAIN df.rows |->
        [i \in DOMAIN cols |->
            IF HasColumn(df, cols[i])
            THEN df.rows[r][ColumnIndex(df, cols[i])] ELSE Null]]

RECURSIVE StackRows(_, _, _)
StackRows(frames, cols, k) ==
    IF k > Len(frames) THEN <<>>
    ELSE AlignRows(frames[k], cols) \o StackRows(frames, cols, k + 1)

\* pd.concat(frames, ignore_index=True), frames not empty
Concat(frames) ==
    LET cols == UnionColumns(<<>>, frames, 1)
        rws == StackRows(frames, cols, 1)
    IN  DataFrame(cols, [r \in DOMAIN rws |-> r - 1], rws)

\* ------------------------------------------------------------ sort_values
\* a sorts strictly before b under one key; NaN / NaT sort last
RECURSIVE Pow10(_)
Pow10(n) == IF n = 0 THEN 1 ELSE 10 * Pow10(n - 1)

CellLess(a, b) ==
    CASE a.k = "null" -> FALSE
      [] a.k # "null" /\ b.k = "null" -> TRUE
      [] a.k = "date" /\ b.k = "date" -> a.m < b.m
      [] a.k = "num" /\ b.k = "num" -> a.m * Pow10(b.e) < b.m * Pow10(a.e)

CellSame(a, b) == ~CellLess(a, b) /\ ~CellLess(b, a)

\* row x of df sorts strictly before row y under the keys (SEANCE, CODE_INDICE)
RowLess(df, x, y) ==
    LET ds == ColumnIndex(df, SEANCE)
        cs == ColumnIndex(df, CODE_INDICE)
    IN  \/ CellLess(df.rows[x][ds], df.rows[y][ds])
        \/ /\ CellSame(df.rows[x][ds], df.rows[y][ds])
           /\ CellLess(df.rows[x][cs], df.rows[y][cs])

\* positions 1..n in sorted order; equal keys keep their order
RECURSIVE InsertPosition(_, _, _)
InsertPosition(df, sorted, x) ==
    IF sorted = <<>> THEN <<x>>
    ELSE IF RowLess(df, x, Head(sorted)) THEN <<x>> \o sorted
    ELSE <<Head(sorted)>> \o InsertPosition(df, Tail(sorted), x)

RECURSIVE SortedPositions(_, _)
SortedPositions(df, n) ==
    IF n = 0 THEN <<>>
    ELSE InsertPosition(df, SortedPositions(df, n - 1), n)

ShouldSort(df) == HasColumn(df, SEANCE) /\ HasColumn(df, CODE_INDICE)

sort_values(df) ==
    LET pos == SortedPositions(df, Len(df.rows))
    IN  [df EXCEPT !.index = [j \in DOMAIN pos |-> df.index[pos[j]]],
                   !.rows = [j \in DOMAIN pos |-> df.rows[pos[j]]]]

\* reset_index(drop=True)
reset_index(df) == [df EXCEPT !.index = [r \in DOMAIN df.rows |-> r - 1]]

\* lines 129-136 of combine_csv_files
CombineFrames(frames) ==
    LET combined == Concat(frames)
    IN  reset_index(IF ShouldSort(combined) THEN sort_values(combined) ELSE combined)

\* ------------------------------------------------------ CSV files on disk
\* A file on disk is [exists, columns, rows], the rows holding field texts.
NoFile == [exists |-> FALSE, columns |-> <<>>, rows |-> <<>>]

\* one cell as to_csv writes it
ToCsvField(c) == IF c.k = "null" THEN <<>> ELSE AsStr(c)

\* df.to_csv(path, index=False)
to_csv(df) ==
    [exists |-> TRUE, columns |-> df.columns,
     rows |-> [r \in DOMAIN df.rows |->
                 [i \in DOMAIN df.columns |-> ToCsvField(df.rows[r][i])]]]

\* pd.read_csv(path) on such a file: an empty field is NaN, a column whose
\* filled fields are all numbers is numeric, any other column holds strings
ColumnIsNumeric(file, i) ==
    \A r \in DOMAIN file.rows :
        file.rows[r][i] = <<>> \/ ParseNumber(file.rows[r][i]).k = "num"

FromCsvField(file, r, i) ==
    IF file.rows[r][i] = <<>> THEN Null
    ELSE IF ColumnIsNumeric(file, i) THEN ParseNumber(file.rows[r][i])
    ELSE Text(file.rows[r][i])

read_csv(file) ==
    IF ~file.exists THEN Raised
    ELSE DataFrame(file.columns, [r \in DOMAIN file.rows |-> r - 1],
                   [r \in DOMAIN file.rows |->
                       [i \in DOMAIN file.columns |-> FromCsvField(file, r, i)]])

\* ------------------------------------------------------ data_filtering.py
TUNINDEX == <<"TUNINDEX">>

\* df[df['LIB_INDICE'] == 'TUNINDEX']; a missing label raises KeyError
FilterTunindex(df) ==
    IF df.kind # "df" THEN df
    ELSE IF ~HasColumn(df, LIB_INDICE) THEN Raised
    ELSE LET li == ColumnIndex(df, LIB_INDICE)
         IN  SelectRows(df, {r \in DOMAIN df.rows : df.rows[r][li] = Text(TUNINDEX)})

\* ------------------------------------------------------- the source files
RECURSIVE Blanks(_)
Blanks(n) == IF n = 0 THEN <<>> ELSE <<" ">> \o Blanks(n - 1)

Pad(name, l, r) == Blanks(l) \o name \o Blanks(r)

EXTRA == <<"COMMENT">>
Jan1 == Text(<<"0", "1", "/", "0", "1", "/", "2", "0", "2", "0">>)
Jan2 == Text(<<"0", "2", "/", "0", "1", "/", "2", "0", "2", "0">>)
Jan3 == Text(<<"3", "/", "1", "/", "2", "0", "2", "0">>)
IsoDate == Text(<<"2", "0", "2", "0", "-", "0", "1", "-", "0", "4">>)
Dashes == Text(<<"-", "-", "-", "-">>)
CommaDecimal == Text(<<"1", ",", "5">>)
PointDecimal == Text(<<"2", ".", "5">>)
Utf8 == {"utf-8", "latin-1", "cp1252", "iso-8859-1"}
Latin == {"latin-1", "cp1252", "iso-8859-1"}

\* What the year folders may hold.  Every file decodes as latin-1 (any byte
\* sequence does), its column labels are distinct after stripping except where
\* SEANCE is repeated, and its CODE_INDICE cells are numbers or missing.
SourceContents == <<
    \* 1: all is well
    [decodable |-> Utf8, parses |-> TRUE,
     columns |-> <<SEANCE, CODE_INDICE, LIB_INDICE, INDICE_JOUR>>,
     rows |-> << <<Jan2, Num(2, 0), Text(TUNINDEX), CommaDecimal>>,
                 <<Jan2, Num(1, 0), Text(<<"TUNINDEX20">>), PointDecimal>> >>],
    \* 2: padded labels in another order, not UTF-8
    [decodable |-> Latin, parses |-> TRUE,
     columns |-> <<Pad(CODE_INDICE, 1, 0), Pad(SEANCE, 0, 1), LIB_INDICE>>,
     rows |-> << <<Num(1, 0), Jan1, Text(TUNINDEX)>> >>],
    \* 3: a separator row, a date in another format, a missing date
    [decodable |-> Utf8, parses |-> TRUE,
     columns |-> <<SEANCE, CODE_INDICE, LIB_INDICE>>,
     rows |-> << <<Dashes, Null, Null>>,
                 <<IsoDate, Num(1, 0), Text(TUNINDEX)>>,
                 <<Null, Num(2, 0), Text(<<"TUNINDEX", " ">>)>> >>],
    \* 4: no CODE_INDICE column, an extra column, dates descending
    [decodable |-> Utf8, parses |-> TRUE,
     columns |-> <<SEANCE, LIB_INDICE, EXTRA>>,
     rows |-> << <<Jan3, Text(TUNINDEX), Text(<<"x">>)>>,
                 <<Jan1, Text(TUNINDEX), Null>> >>],
    \* 5: neither SEANCE nor LIB_INDICE
    [decodable |-> Utf8, parses |-> TRUE,
     columns |-> <<CODE_INDICE, INDICE_JOUR>>,
     rows |-> << <<Num(1, 0), Num(25, 1)>> >>],
    \* 6: the parser rejects the file
    [decodable |-> Utf8, parses |-> FALSE,
     columns |-> <<>>, rows |-> <<>>],
    \* 7: two labels that both strip to SEANCE
    [decodable |-> Latin, parses |-> TRUE,
     columns |-> <<Pad(SEANCE, 1, 0), SEANCE, CODE_INDICE>>,
     rows |-> << <<Jan1, Jan1, Num(1, 0)>> >>],
    \* 8: nothing but a separator row and an empty row
    [decodable |-> Utf8, parses |-> TRUE,
     columns |-> <<SEANCE, CODE_INDICE>>,
     rows |-> << <<Dashes, Num(1, 0)>>, <<Null, Null>> >>],
    \* 9: no LIB_INDICE column
    [decodable |-> Utf8, parses |-> TRUE,
     columns |-> <<SEANCE, CODE_INDICE, INDICE_JOUR>>,
     rows |-> << <<Jan1, Num(3, 0), PointDecimal>> >>]
>>

\* f"indice_{year}" and the base name of the k-th file glob returns
FolderName(y) == <<"indice_">> \o DigitsOf(y)
FileName(k) == <<"histo_indice_", DigitChars[k + 1], ".csv">>

SourceFile(c, y, k) ==
    [name |-> FileName(k), folder |-> FolderName(y),
     decodable |-> SourceContents[c].decodable, parses |-> SourceContents[c].parses,
     columns |-> SourceContents[c].columns, rows |-> SourceContents[c].rows]

\* a combined file left on disk by an earlier run
StaleFile ==
    [exists |-> TRUE, columns |-> <<SEANCE, LIB_INDICE>>,
     rows |-> << <<FormatDate(Date(20190102)), TUNINDEX>> >>]

\* ------------------------------------------------------------------- state
VARIABLES
    start_year, end_year,   \* arguments of combine_csv_files
    year,                   \* the loop variable of line 91
    pending,                \* csv_files of the current folder not yet processed
    folder_dataframes, all_dataframes, combined_df,
    seen,                   \* what the run met, in order: a missing folder, an
                            \* empty one, or the k-th file (contents c) of a folder
    out_file,               \* output_file on disk
    writes,                 \* number of to_csv calls on output_file
    pc,                     \* "year", "files", "returned", "raised", "aborted"
    filt_file, fpc,         \* tunindex_filtered.csv and the filter script
    in_file, file_df, ipc,  \* one call of process_csv_file, step by step
    norm_in, norm_twin,     \* a table, and the same with ',' for '.' in its texts
    norm_op,                \* the normalizer under repetition
    norm_out, norm_twin_out \* its successive results on norm_in; once on norm_twin

pipeVars == <<start_year, end_year, year, pending, folder_dataframes, all_dataframes,
              combined_df, seen, out_file, writes, pc, filt_file, fpc>>
ingestVars == <<in_file, file_df, ipc>>
normVars == <<norm_in, norm_twin, norm_op, norm_out, norm_twin_out>>
vars == <<pipeVars, ingestVars, normVars>>

IngestIdle == in_file = NoFile /\ file_df = NoneDF /\ ipc = "idle"
NormIdle ==
    /\ norm_in = NoneDF /\ norm_twin = NoneDF /\ norm_op = "idle"
    /\ norm_out = <<>> /\ norm_twin_out = NoneDF

START_YEAR == 2008
Years == START_YEAR..LastYear

FilesSeen == Cardinality({i \in DOMAIN seen : seen[i].what = "file"})

Init ==
    /\ start_year \in Years
    /\ end_year \in (start_year - 1)..LastYear
    /\ year = start_year
    /\ pending = 0
    /\ folder_dataframes = <<>>
    /\ all_dataframes = <<>>
    /\ combined_df = NoneDF
    /\ seen = <<>>
    /\ out_file \in {NoFile, StaleFile}
    /\ writes = 0
    /\ pc = "year"
    /\ filt_file = NoFile
    /\ fpc = "idle"
    /\ IngestIdle /\ NormIdle

\* range(start_year, end_year)
InRangeExclusive(y) == y < end_year

\* for year in range(start_year, end_year + 1)
InRange(y) == y <= end_year

\* line 95: the folder does not exist
SkipMissingFolder ==
    /\ pc = "year" /\ InRange(year)
    /\ seen' = Append(seen, [year |-> year, what |-> "missing", c |-> 0, k |-> 0])
    /\ year' = year + 1
    /\ UNCHANGED <<start_year, end_year, pending, folder_dataframes, all_dataframes,
                   combined_df, out_file, writes, pc, filt_file, fpc>>
    /\ UNCHANGED <<ingestVars, normVars>>

\* line 105: glob finds no CSV file
SkipEmptyFolder ==
    /\ pc = "year" /\ InRange(year)
    /\ seen' = Append(seen, [year |-> year, what |-> "empty", c |-> 0, k |-> 0])
    /\ year' = year + 1
    /\ UNCHANGED <<start_year, end_year, pending, folder_dataframes, all_dataframes,
                   combined_df, out_file, writes, pc, filt_file, fpc>>
    /\ UNCHANGED <<ingestVars, normVars>>

\* lines 103-110: glob finds n files
EnterFolder ==
    /\ pc = "year" /\ InRange(year)
    /\ \E n \in 1..MaxFiles :
        /\ FilesSeen + n <= MaxTotalFiles
        /\ pending' = n
    /\ folder_dataframes' = <<>>
    /\ pc' = "files"
    /\ UNCHANGED <<start_year, end_year, year, all_dataframes, combined_df, seen,
                   out_file, writes, filt_file, fpc>>
    /\ UNCHANGED <<ingestVars, normVars>>

\* line 114 without its emptiness test
ContributesUnlessNone(df) == df.kind = "df"

\* line 114
Contributes(df) == df.kind = "df" /\ df.rows # <<>>

\* lines 111-115: one pass of the file loop; an exception that leaves
\* process_csv_file ends the run
ProcessFile ==
    /\ pc = "files" /\ pending > 0
    /\ \E c \in DOMAIN SourceContents :
        LET k == Cardinality({i \in DOMAIN seen :
                                seen[i].what = "file" /\ seen[i].year = year})
            df == process_csv_file(SourceFile(c, year, k))
        IN  /\ seen' = Append(seen, [year |-> year, what |-> "file", c |-> c, k |-> k])
            /\ folder_dataframes' =
                 IF Contributes(df) THEN Append(folder_dataframes, df)
                 ELSE folder_dataframes
            /\ pc' = IF df.kind = "raise" THEN "aborted" ELSE pc
    /\ pending' = pending - 1
    /\ UNCHANGED <<start_year, end_year, year, all_dataframes, combined_df,
                   out_file, writes, filt_file, fpc>>
    /\ UNCHANGED <<ingestVars, normVars>>

\* lines 118-120: the folder is done
CloseFolder ==
    /\ pc = "files" /\ pending = 0
    /\ all_dataframes' =
         IF folder_dataframes # <<>>
         THEN Append(all_dataframes, Concat(folder_dataframes))
         ELSE all_dataframes
    /\ year' = year + 1
    /\ pc' = "year"
    /\ UNCHANGED <<start_year, end_year, pending, folder_dataframes, combined_df,
                   seen, out_file, writes, filt_file, fpc>>
    /\ UNCHANGED <<ingestVars, normVars>>

\* lines 123-125
ReturnNoData ==
    /\ pc = "year" /\ ~InRange(year)
    /\ all_dataframes = <<>>
    /\ pc' = "returned"
    /\ UNCHANGED <<start_year, end_year, year, pending, folder_dataframes,
                   all_dataframes, combined_df, seen, out_file, writes, filt_file, fpc>>
    /\ UNCHANGED <<ingestVars, normVars>>

\* lines 143-144 index combined_df by 'SEANCE' and 'CODE_INDICE'
ReportOutcome(df) ==
    IF HasColumn(df, SEANCE) /\ HasColumn(df, CODE_INDICE) THEN "returned" ELSE "raised"

\* lines 127-154
SaveCombined ==
    /\ pc = "year" /\ ~InRange(year)
    /\ all_dataframes # <<>>
    /\ combined_df' = CombineFrames(all_dataframes)
    /\ out_file' = to_csv(combined_df')
    /\ writes' = writes + 1
    /\ pc' = ReportOutcome(combined_df')
    /\ UNCHANGED <<start_year, end_year, year, pending, folder_dataframes,
                   all_dataframes, seen, filt_file, fpc>>
    /\ UNCHANGED <<ingestVars, normVars>>

\* data_filtering.py, run once combine_csv_files has ended
RunFilter ==
    /\ pc \in {"returned", "raised", "aborted"} /\ fpc = "idle"
    /\ LET filtered_df == FilterTunindex(read_csv(out_file))
       IN  IF filtered_df.kind = "df"
           THEN filt_file' = to_csv(filtered_df) /\ fpc' = "done"
           ELSE filt_file' = filt_file /\ fpc' = "raised"
    /\ UNCHANGED <<start_year, end_year, year, pending, folder_dataframes,
                   all_dataframes, combined_df, seen, out_file, writes, pc>>
    /\ UNCHANGED <<ingestVars, normVars>>

Next ==
    \/ SkipMissingFolder
    \/ SkipEmptyFolder
    \/ EnterFolder
    \/ ProcessFile
    \/ CloseFolder
    \/ ReturnNoData
    \/ SaveCombined
    \/ RunFilter

Spec == Init /\ [][Next]_vars

\* ---------------------------------------- process_csv_file, step by step
\* all sequences over S of length at most n
RECURSIVE SeqsUpTo(_, _)
SeqsUpTo(S, n) ==
    IF n = 0 THEN {<<>>}
    ELSE LET shorter == SeqsUpTo(S, n - 1)
         IN  shorter \cup {Append(q, x) : q \in shorter, x \in S}

TwoDashes == Text(<<"-", "-">>)
DashesInside == Text(<<"x", "-", "-", "-">>)
FirstCells == {Null, Dashes, DashesInside, TwoDashes, Jan1}
OtherCells == {Null, Dashes, CommaDecimal}

IngestHeaders ==
    { <<SEANCE, INDICE_JOUR>>,
      <<Pad(LIB_INDICE, 1, 0), Pad(SEANCE, 0, 1)>>,
      <<CODE_INDICE, EXTRA>>,
      <<Pad(SEANCE, 1, 0), SEANCE>> }

IngestRows == {<<a, b>> : a \in FirstCells, b \in OtherCells}

GeneratedFiles ==
    { [name |-> FileName(0), folder |-> FolderName(START_YEAR),
       decodable |-> d, parses |-> TRUE, columns |-> h, rows |-> rws] :
        d \in {Utf8, Latin}, h \in IngestHeaders, rws \in SeqsUpTo(IngestRows, MaxRows) }
    \cup
    { [name |-> FileName(0), folder |-> FolderName(START_YEAR),
       decodable |-> Utf8, parses |-> FALSE, columns |-> <<>>, rows |-> <<>>] }

PipeIdle ==
    /\ start_year = START_YEAR /\ end_year = START_YEAR /\ year = START_YEAR
    /\ pending = 0 /\ folder_dataframes = <<>> /\ all_dataframes = <<>>
    /\ combined_df = NoneDF /\ seen = <<>> /\ out_file = NoFile /\ writes = 0
    /\ pc = "idle" /\ filt_file = NoFile /\ fpc = "done"

InitIngest ==
    /\ in_file \in GeneratedFiles
    /\ file_df = NoneDF
    /\ ipc = "read"
    /\ PipeIdle /\ NormIdle

\* after a step: on to the next one, or to the except clause
After(result, next) == IF result.kind = "raise" THEN "except" ELSE next

\* lines 37-49
StepRead ==
    /\ ipc = "read"
    /\ file_df' = ReadCsv(in_file)
    /\ ipc' = IF file_df'.kind = "None" THEN "returned" ELSE After(file_df', "names")
    /\ UNCHANGED <<in_file, pipeVars, normVars>>

\* line 52
StepCleanNames ==
    /\ ipc = "names"
    /\ file_df' = clean_column_names(file_df)
    /\ ipc' = After(file_df', "separators")
    /\ UNCHANGED <<in_file, pipeVars, normVars>>

\* line 55
StepFilterSeparators ==
    /\ ipc = "separators"
    /\ file_df' = FilterSeparatorRows(file_df)
    /\ ipc' = After(file_df', "dropna")
    /\ UNCHANGED <<in_file, pipeVars, normVars>>

\* line 58
StepDropEmpty ==
    /\ ipc = "dropna"
    /\ file_df' = DropEmptyRows(file_df)
    /\ ipc' = After(file_df', "date")
    /\ UNCHANGED <<in_file, pipeVars, normVars>>

\* line 61
StepDate ==
    /\ ipc = "date"
    /\ file_df' = standardize_date_format(file_df)
    /\ ipc' = After(file_df', "numeric")
    /\ UNCHANGED <<in_file, pipeVars, normVars>>

\* line 64
StepNumeric ==
    /\ ipc = "numeric"
    /\ file_df' = clean_numeric_columns(file_df)
    /\ ipc' = After(file_df', "stamp")
    /\ UNCHANGED <<in_file, pipeVars, normVars>>

\* lines 67-70
StepStampAndReturn ==
    /\ ipc = "stamp"
    /\ file_df' = StampSource(file_df, in_file)
    /\ ipc' = After(file_df', "returned")
    /\ UNCHANGED <<in_file, pipeVars, normVars>>

\* lines 72-74
StepExcept ==
    /\ ipc = "except"
    /\ file_df' = CatchAll(file_df)
    /\ ipc' = "returned"
    /\ UNCHANGED <<in_file, pipeVars, normVars>>

NextIngest ==
    \/ StepRead
    \/ StepCleanNames
    \/ StepFilterSeparators
    \/ StepDropEmpty
    \/ StepDate
    \/ StepNumeric
    \/ StepStampAndReturn
    \/ StepExcept

SpecIngest == InitIngest /\ [][NextIngest]_vars

\* ------------------------------------------------ the normalizers, repeated
NormAlphabet == {"1", ",", ".", " ", "-"}
NormCells ==
    {Null, Num(25, 1), Num(-3, 0)} \cup {Text(t) : t \in SeqsUpTo(NormAlphabet, MaxLen)}

NormTables ==
    { DataFrame(<<Pad(b, l, r), INDICE_OUV>>, <<0>>, << <<x, y>> >>) :
        b \in {INDICE_JOUR, LIB_INDICE}, l \in 0..MaxPad, r \in 0..MaxPad,
        x \in NormCells, y \in {Null, CommaDecimal} }

\* the texts of a table with every ',' turned into '.'
PointTwin(t) ==
    [t EXCEPT !.rows =
        [r \in DOMAIN t.rows |->
            [i \in DOMAIN t.columns |->
                IF t.rows[r][i].k = "text"
                THEN Text(Replace(t.rows[r][i].s, ",", ".")) ELSE t.rows[r][i]]]]

InitNorm ==
    /\ norm_in \in NormTables
    /\ norm_twin = PointTwin(norm_in)
    /\ norm_op = "none"
    /\ norm_out = <<>>
    /\ norm_twin_out = NoneDF
    /\ PipeIdle /\ IngestIdle

Latest == IF norm_out = <<>> THEN norm_in ELSE norm_out[Len(norm_out)]

\* the call df = clean_column_names(df), up to twice in a row
ApplyCleanColumnNames ==
    /\ norm_op \in {"none", "names"} /\ Len(norm_out) < 2
    /\ norm_op' = "names"
    /\ norm_out' = Append(norm_out, clean_column_names(Latest))
    /\ norm_twin_out' = IF norm_out = <<>> THEN clean_column_names(norm_twin)
                        ELSE norm_twin_out
    /\ UNCHANGED <<norm_in, norm_twin, pipeVars, ingestVars>>

\* the call df = clean_numeric_columns(df), up to twice in a row
ApplyCleanNumericColumns ==
    /\ norm_op \in {"none", "numeric"} /\ Len(norm_out) < 2
    /\ norm_op' = "numeric"
    /\ norm_out' = Append(norm_out, clean_numeric_columns(Latest))
    /\ norm_twin_out' = IF norm_out = <<>> THEN clean_numeric_columns(norm_twin)
                        ELSE norm_twin_out
    /\ UNCHANGED <<norm_in, norm_twin, pipeVars, ingestVars>>

\* the numeric loop of indice_2021/2021.py, up to twice in a row
ApplyFwfNumericColumns ==
    /\ norm_op \in {"none", "fwf"} /\ Len(norm_out) < 2
    /\ norm_op' = "fwf"
    /\ norm_out' = Append(norm_out, fwf_numeric_columns(Latest))
    /\ norm_twin_out' = IF norm_out = <<>> THEN fwf_numeric_columns(norm_twin)
                        ELSE norm_twin_out
    /\ UNCHANGED <<norm_in, norm_twin, pipeVars, ingestVars>>

NextNorm ==
    \/ ApplyCleanColumnNames
    \/ ApplyCleanNumericColumns
    \/ ApplyFwfNumericColumns

SpecNorm == InitNorm /\ [][NextNorm]_vars

\* ================================================================== claims
EntryFile(e) == SourceFile(e.c, e.year, e.k)
IsFile(e) == e.what = "file"
Finished == pc \in {"returned", "raised"}

\* an error leaves the try block of process_csv_file for this file, or no
\* encoding decodes it
Fails(e) == ProcessSteps(ReadCsv(EntryFile(e)), EntryFile(e)).kind # "df"
YieldsRows(e) == Len(process_csv_file(EntryFile(e)).rows) >= 1

\* the frames of the files of entries[i..] that satisfy Wanted and hold a row
RECURSIVE FramesFrom(_, _, _)
FramesFrom(entries, Wanted(_), i) ==
    IF i > Len(entries) THEN <<>>
    ELSE (IF IsFile(entries[i]) /\ Wanted(entries[i]) /\ YieldsRows(entries[i])
          THEN <<process_csv_file(EntryFile(entries[i]))>> ELSE <<>>)
         \o FramesFrom(entries, Wanted, i + 1)

Sound(e) == ~Fails(e)
InThisFolder(e) == ~Fails(e) /\ e.year = year

SessionDateField(file, r) ==
    IF \E i \in DOMAIN file.columns : file.columns[i] = SEANCE
    THEN file.rows[r][CHOOSE i \in DOMAIN file.columns : file.columns[i] = SEANCE]
    ELSE <<>>

\* C1: after combine_csv_files writes the combined output, no row of it has a
\* null session date: rows whose date is missing or unparseable are excluded.
C1_NoNullSessionDate ==
    writes > 0 =>
        \A r \in DOMAIN out_file.rows : SessionDateField(out_file, r) # <<>>

CanonicalColumns ==
    <<SEANCE, CODE_INDICE, LIB_INDICE, INDICE_JOUR, INDICE_VEILLE, VARIATION_VEILLE,
      INDICE_PLUS_HAUT, INDICE_PLUS_BAS, INDICE_OUV, SOURCE_FILE, SOURCE_FOLDER>>

\* C2: whenever combine_csv_files writes an output, its header is exactly the
\* 11 canonical columns in the fixed order.
C2_CanonicalColumns == writes > 0 => out_file.columns = CanonicalColumns

\* the sort key of a row of the written frame; a column it lacks is all-null
KeyCell(frame, r, name) ==
    IF HasColumn(frame, name) THEN frame.rows[r][ColumnIndex(frame, name)] ELSE Null

KeyLessOrEqual(frame, x, y) ==
    LET dx == KeyCell(frame, x, SEANCE)
        dy == KeyCell(frame, y, SEANCE)
        cx == KeyCell(frame, x, CODE_INDICE)
        cy == KeyCell(frame, y, CODE_INDICE)
    IN  \/ CellLess(dx, dy)
        \/ CellSame(dx, dy) /\ ~CellLess(cy, cx)

\* C3: whenever combine_csv_files writes an output, consecutive rows are in
\* non-decreasing order of (SEANCE, CODE_INDICE), nulls last, also when a source
\* file lacks the date or the index-code column.
C3_SortedByDateAndCode ==
    writes > 0 =>
        \A r \in 1..(Len(combined_df.rows) - 1) : KeyLessOrEqual(combined_df, r, r + 1)

\* C4: a file that fails (undecodable, or an error at any step of
\* process_csv_file) contributes no row and never ends the run: every folder
\* keeps ingesting its other files, and the run ends with exactly what the
\* files that did not fail give, as if the failing files were absent.
C4_FailureIsIsolated ==
    /\ pc # "aborted"
    /\ pc = "files" => folder_dataframes = FramesFrom(seen, InThisFolder, 1)
    /\ Finished =>
         LET frames == FramesFrom(seen, Sound, 1)
         IN  IF frames = <<>> THEN writes = 0 /\ combined_df = NoneDF
             ELSE /\ writes = 1
                  /\ combined_df = CombineFrames(frames)
                  /\ out_file = to_csv(CombineFrames(frames))

\* a failing file was met before a sound file of the same folder, and the run
\* wrote its output
C4_Witness ==
    /\ pc = "returned" /\ writes = 1
    /\ \E i, j \in DOMAIN seen :
        /\ i < j /\ IsFile(seen[i]) /\ IsFile(seen[j]) /\ seen[i].year = seen[j].year
        /\ Fails(seen[i]) /\ ~Fails(seen[j]) /\ YieldsRows(seen[j])
        /\ \E i2 \in DOMAIN seen :
             IsFile(seen[i2]) /\ ReadCsv(EntryFile(seen[i2])).kind = "df" /\ Fails(seen[i2])

AnyRows == \E i \in DOMAIN seen : IsFile(seen[i]) /\ YieldsRows(seen[i])

\* C5: when no file of the year range yields a row, combine_csv_files returns
\* no dataset and leaves the output file as it was; the output file is written
\* only when some file contributed at least one row.
C5_NoDataNoWrite ==
    /\ (Finished /\ ~AnyRows) =>
            pc = "returned" /\ combined_df = NoneDF /\ writes = 0
    /\ ~AnyRows => out_file \in {NoFile, StaleFile} /\ writes = 0
    /\ writes > 0 => AnyRows /\ Len(out_file.rows) >= 1

\* the run met folders and files, none of which gave a row, returned nothing,
\* and the file of an earlier run is still on disk
C5_Witness ==
    /\ pc = "returned" /\ combined_df = NoneDF /\ writes = 0
    /\ out_file = StaleFile
    /\ \E i \in DOMAIN seen : IsFile(seen[i]) /\ ~Fails(seen[i])
    /\ \E i \in DOMAIN seen : ~IsFile(seen[i])

\* the CSV rows every file of the run gives, under the header cols
RECURSIVE IngestedRows(_, _)
IngestedRows(cols, i) ==
    IF i > Len(seen) THEN <<>>
    ELSE (IF IsFile(seen[i])
          THEN to_csv(DataFrame(cols, <<>>,
                   AlignRows(process_csv_file(EntryFile(seen[i])), cols))).rows
          ELSE <<>>)
         \o IngestedRows(cols, i + 1)

Occurrences(rws, x) == Cardinality({i \in DOMAIN rws : rws[i] = x})
SameRows(a, b) ==
    /\ Len(a) = Len(b)
    /\ \A i \in DOMAIN a : Occurrences(a, a[i]) = Occurrences(b, a[i])

IsDecimalComma(c) ==
    /\ c.k = "text"
    /\ Cardinality({i \in DOMAIN c.s : c.s[i] = ","}) = 1
    /\ \A i \in DOMAIN c.s : c.s[i] # "."
    /\ LET p == FirstIndex(c.s, ",")
       IN  /\ p > 1 /\ p < Len(c.s)
           /\ IsDigit(c.s[p - 1]) /\ IsDigit(c.s[p + 1])
    /\ ParseNumber(Replace(c.s, ",", ".")).k = "num"

\* C7: in each designated numeric column, the numeric normalizer maps a
\* decimal-comma text to the same number as the decimal-point text, on the CSV
\* path (clean_numeric_columns) and on the fixed-width path.
C7_CommaSameAsPoint ==
    (norm_op \in {"numeric", "fwf"} /\ norm_out # <<>>) =>
        \A i \in DOMAIN norm_in.columns :
            (IsNumericColumn(norm_in.columns[i]) /\ IsDecimalComma(norm_in.rows[1][i])) =>
                /\ norm_out[1].rows[1][i].k = "num"
                /\ norm_out[1].rows[1][i] = norm_twin_out.rows[1][i]

\* the 0-based positions of the rows of a source file whose first cell does not
\* hold three dashes in a row and that have a cell that is not null
HasMarker(c) ==
    c.k = "text" /\ \E i \in DOMAIN c.s :
        i + 2 <= Len(c.s) /\ c.s[i] = "-" /\ c.s[i + 1] = "-" /\ c.s[i + 2] = "-"

RECURSIVE KeptLabels(_, _)
KeptLabels(f, r) ==
    IF r > Len(f.rows) THEN <<>>
    ELSE (IF ~HasMarker(f.rows[r][1]) /\ (\E i \in DOMAIN f.rows[r] : f.rows[r][i] # Null)
          THEN <<r - 1>> ELSE <<>>)
         \o KeptLabels(f, r + 1)

\* C8: process_csv_file on a file it can read returns exactly the rows whose
\* first column's text does not contain the separator marker and that are not
\* null in every column, in their original order; the marker is looked for in
\* the first column only.
C8_ExactlyTheDataRows ==
    (ipc = "returned" /\ file_df.kind = "df") =>
        /\ file_df.index = KeptLabels(in_file, 1)
        /\ Len(file_df.rows) = Len(file_df.index)
        /\ \A j \in DOMAIN file_df.rows : \A i \in DOMAIN in_file.columns :
             (file_df.columns[i] # SEANCE /\ ~IsNumericColumn(file_df.columns[i])) =>
                 file_df.rows[j][i] = in_file.rows[file_df.index[j] + 1][i]

\* a file with one separator row and one row that carries the marker in its
\* second column gave exactly that second row
C8_Witness ==
    /\ ipc = "returned" /\ file_df.kind = "df"
    /\ Len(in_file.rows) = 2
    /\ HasMarker(in_file.rows[1][1])
    /\ ~HasMarker(in_file.rows[2][1]) /\ HasMarker(in_file.rows[2][2])
    /\ file_df.index = <<1>> /\ Len(file_df.rows) = 1

\* the rows of a CSV file whose LIB_INDICE field is TUNINDEX, in order
RECURSIVE MatchingRows(_, _)
MatchingRows(file, r) ==
    IF r > Len(file.rows) THEN <<>>
    ELSE (IF \E i \in DOMAIN file.columns :
                file.columns[i] = LIB_INDICE /\ file.rows[r][i] = TUNINDEX
          THEN <<file.rows[r]>> ELSE <<>>)
         \o MatchingRows(file, r + 1)

\* C9: the filter stage writes exactly the rows of the combined output whose
\* LIB_INDICE equals "TUNINDEX", unchanged and in order; when no row matches it
\* writes a header-only file and does not fail.  Stated for the runs in which
\* combine_csv_files wrote the combined output and returned it.
C9_FilterWritesMatches ==
    (fpc # "idle" /\ pc = "returned" /\ writes = 1) =>
        /\ fpc = "done"
        /\ filt_file.exists
        /\ filt_file.columns = out_file.columns
        /\ filt_file.rows = MatchingRows(out_file, 1)

\* C10: clean_column_names and clean_numeric_columns are idempotent: the second
\* application leaves the column names and the cells as the first one left them.
C10_NormalizersIdempotent ==
    (norm_op \in {"names", "numeric"} /\ Len(norm_out) = 2) =>
        /\ norm_out[2].columns = norm_out[1].columns
        /\ norm_out[2].rows = norm_out[1].rows

\* a normalizer ran twice on a table its first run changed
C10_Witness ==
    /\ Len(norm_out) = 2
    /\ \/ norm_op = "numeric" /\ norm_out[1].rows # norm_in.rows
       \/ norm_op = "names" /\ norm_out[1].columns # norm_in.columns

====
